---- MODULE Spec2Model ----
(***************************************************************************)
(* Model of the instance slot allocator and GPU-mirrored buffer            *)
(* (InstanceBuffer, src/src/instance.rs) of the wgpu-tutorial renderer,    *)
(* of the Instances that own its slots and of the Surface that holds both  *)
(* (src/src/model.rs).                                                     *)
(*                                                                         *)
(* Slot indices are 0-based as in the Rust code; TLA+ sequences are        *)
(* 1-based, so slot i of a Vec is element i+1 of the sequence.             *)
(***************************************************************************)
EXTENDS Integers, Sequences, FiniteSets

\* ---------------------------------------------------------------- bounds
\* Largest number of Rc<usize> handles ever created on one pool.
MaxHandles == 3
\* RawInstance values are abstracted to 0..MaxRec; 0 is RawInstance::default().
MaxRec == 1
\* InstanceBuffer::new is called with buffer_size_in_elems in 1..MaxInitCap.
MaxInitCap == 2
\* Largest number of Instances ever created on one Surface.
MaxInstances == 2
\* Instance fields are integers; position.x stays in 0..MaxPos.
MaxPos == 1

VARIABLES
    cpu_copy,          \* Vec<RawInstance>
    handles,           \* Vec<Weak<usize>>: [value, alive] per weak reference
    gpu_buffer,        \* content of the wgpu::Buffer, one record per element
    gpu_buffer_id,     \* identity of the wgpu::Buffer: number of create_buffer calls
    gpu_buffer_size,   \* usize
    occupied_slots,    \* u64
    changed,           \* bool
    status,            \* "running", or "panicked" after an index out of bounds
    initial_capacity,  \* the argument InstanceBuffer::new was called with
    last_call,         \* name of the last method called on the pool
    gpu_writes,        \* number of queue.write_buffer calls the last call issued
    max_alive,         \* history: largest number of handles alive at one time
    instances,         \* Surface.instances: the Instance owning the k-th handle
    pc                 \* position in Surface::new; "none": a pool without Surface

vars == <<cpu_copy, handles, gpu_buffer, gpu_buffer_id, gpu_buffer_size,
          occupied_slots, changed, status, initial_capacity, last_call,
          gpu_writes, max_alive, instances, pc>>

\* ------------------------------------------------------------ data types
\* RawInstance::default(): [[0.0; 4]; 5]
DefaultRecord == 0

RawInstance == 0..MaxRec

\* Weak<usize>::upgrade() is Some iff the strong Rc<usize> still exists.
upgrade(h) == h.alive

\* vec![RawInstance::default(); n]
Zeroed(n) == [i \in 1..n |-> DefaultRecord]

\* device.create_buffer with mapped_at_creation: false: wgpu zero-initialises.
create_new_buffer_with_size(size) == Zeroed(size)

\* mem::size_of::<f32>() and mem::size_of::<u8>(), in bytes.
SizeOfF32 == 4
SizeOfU8 == 1

\* mem::size_of::<RawInstance>(): [[f32; 4]; 5]
SizeOfRawInstance == 5 * 4 * SizeOfF32

\* Instance::desc().array_stride:
\* size_of::<[[f32; 4]; 4]>() + size_of::<Vector4<u8>>()
desc_array_stride == 4 * 4 * SizeOfF32 + 4 * SizeOfU8

\* Instance::desc().attributes: byte offset and shader location of each
\* Float32x4 attribute.
desc_attributes ==
    << [offset |-> 0,              shader_location |-> 5],
       [offset |-> 4 * SizeOfF32,  shader_location |-> 6],
       [offset |-> 8 * SizeOfF32,  shader_location |-> 7],
       [offset |-> 12 * SizeOfF32, shader_location |-> 8],
       [offset |-> 16 * SizeOfF32, shader_location |-> 9] >>

\* Byte at which queue.write_buffer(&gpu_buffer, 0, cast_slice(..)) puts
\* record k of the packed array.
WriteOffset(k) == k * SizeOfRawInstance

\* Byte at which a per-instance vertex fetch with this layout reads record k.
FetchOffset(k) == k * desc_array_stride

\* -------------------------------------------------------------- Instance
\* An Instance is reduced to its x axis: position.x, scale.x, one color
\* channel and a rotation about the z axis, Quaternion {s, v: (0, 0, z)}.
\* Matrices are column-major as in cgmath, reduced to the x and w rows and
\* columns: <<column 0, column 3>>, each column <<x, w>>.

\* Quaternion * Quaternion for rotations about z:
\* s = s1 * s2 - v1 . v2, v = s1 * v2 + s2 * v1 + v1 x v2.
QuatMul(a, b) ==
    [s |-> a.s * b.s - a.z * b.z, z |-> a.s * b.z + b.s * a.z]

\* Matrix4 * Matrix4.
MatMul(A, B) ==
    [c \in 1..2 |-> [r \in 1..2 |-> A[1][r] * B[c][1] + A[2][r] * B[c][2]]]

\* Matrix4::from_translation(position)
from_translation(position) == << <<1, 0>>, <<position, 1>> >>

\* Matrix4::from(rotation): the x axis maps to (1 - 2y^2 - 2z^2) x, y = 0.
from_quaternion(q) == << <<1 - 2 * q.z * q.z, 0>>, <<0, 1>> >>

\* Matrix4::new(scale.x, 0, 0, 0, ..., 0, 0, 0, 1)
from_scale(scale) == << <<scale, 0>>, <<0, 1>> >>

\* A RawInstance with the components digits is the integer with these
\* digits in base RecBase (no component exceeds MaxPos + 2 in size); the
\* all-zero record is RawInstance::default().
RecBase == 2 * (MaxPos + 2) + 1

RECURSIVE AsRawInstance(_)
AsRawInstance(digits) ==
    IF digits = <<>> THEN 0
    ELSE Head(digits) + RecBase * AsRawInstance(Tail(digits))

\* Instance::compute_instance_matrix(&self) -> RawInstance
compute_instance_matrix(self) ==
    LET buffer_content ==
            MatMul(MatMul(from_translation(self.position),
                          from_quaternion(self.rotation)),
                   from_scale(self.scale))
    IN AsRawInstance(buffer_content[1] \o buffer_content[2] \o <<self.color>>)

\* Quaternion { v: Vector3::unit_z(), s: 0.0 }
UnitZQuaternion == [s |-> 0, z |-> 1]

\* Instance::new(buffer_index); buffer_index names the Rc<usize> by the
\* position of its weak reference in handles.
Instance_new(buffer_index) ==
    [position |-> 0, rotation |-> UnitZQuaternion, scale |-> 1, color |-> 1,
     buffer_index |-> buffer_index]

\* Instance::init(position, rotation, scale, color, buffer_index)
Instance_init(position, rotation, scale, color, buffer_index) ==
    [position |-> position, rotation |-> rotation, scale |-> scale,
     color |-> color, buffer_index |-> buffer_index]

\* The entry of instances left behind by an Instance that was dropped.
Dropped ==
    [position |-> 0, rotation |-> [s |-> 0, z |-> 0], scale |-> 0, color |-> 0,
     buffer_index |-> 0]

\* The Instances of the Surface that still exist.
LiveInstances == {k \in 1..Len(instances) : instances[k] # Dropped}

\* --------------------------------------------------------------- helpers
\* Positions (1-based) of the weak references that still resolve.
AlivePositions(hs) == {k \in 1..Len(hs) : upgrade(hs[k])}

\* Number of strong handles alive.
AliveCount(hs) == Cardinality(AlivePositions(hs))

\* self.handles.iter().filter_map(|h| h.upgrade()).map(|h| *h).collect()
RECURSIVE get_occupied_slots(_)
get_occupied_slots(hs) ==
    IF hs = <<>> THEN <<>>
    ELSE IF upgrade(Head(hs))
         THEN <<Head(hs).value>> \o get_occupied_slots(Tail(hs))
         ELSE get_occupied_slots(Tail(hs))

\* Mutant of get_first_free_slot_idx: never reuses, always the next new index.
get_first_free_slot_idx_append_only(hs) == Len(hs)

\* First position of handles whose weak reference is dead, else handles.len().
get_first_free_slot_idx(hs) ==
    IF \E k \in 1..Len(hs) : ~upgrade(hs[k])
    THEN (CHOOSE k \in 1..Len(hs) :
             /\ ~upgrade(hs[k])
             /\ \A j \in 1..(k - 1) : upgrade(hs[j])) - 1
    ELSE Len(hs)

\* The resize test of flush: cpu_copy.len() >= gpu_buffer_size.
NeedsResize(len, size) == len >= size

\* Mutant of GrownSize: grows by one element instead of doubling.
GrownSizeByOne(size) == size + 1

\* The new size on a resize: gpu_buffer_size * 2, once.
GrownSize(size) == size * 2

\* contiguous_instance_buffer after the fill loop (no index out of range).
Packed(occ, cpu, size) ==
    [i \in 1..size |-> IF i <= Len(occ) THEN cpu[occ[i] + 1] ELSE DefaultRecord]

\* The fill loop indexes contiguous_instance_buffer[i] and cpu_copy[idx]:
\* either index out of range panics.
FillPanics(occ, cpu, size) ==
    \/ Len(occ) > size
    \/ \E i \in 1..Len(occ) : occ[i] >= Len(cpu)

\* ------------------------------------------------------------------ Init
\* Mutant of Init: the constructor leaves the changed flag set.
InitChanged ==
    /\ initial_capacity \in 1..MaxInitCap
    /\ cpu_copy = <<>>
    /\ handles = <<>>
    /\ gpu_buffer = create_new_buffer_with_size(initial_capacity)
    /\ gpu_buffer_id = 1
    /\ gpu_buffer_size = initial_capacity
    /\ occupied_slots = 0
    /\ changed = TRUE
    /\ status = "running"
    /\ last_call = "new"
    /\ gpu_writes = 0
    /\ max_alive = 0
    /\ instances = <<>>
    /\ pc = "none"

\* InstanceBuffer::new(device, buffer_size_in_elems)
Init ==
    /\ initial_capacity \in 1..MaxInitCap
    /\ cpu_copy = <<>>
    /\ handles = <<>>
    /\ gpu_buffer = create_new_buffer_with_size(initial_capacity)
    /\ gpu_buffer_id = 1
    /\ gpu_buffer_size = initial_capacity
    /\ occupied_slots = 0
    /\ changed = FALSE
    /\ status = "running"
    /\ last_call = "new"
    /\ gpu_writes = 0
    /\ max_alive = 0
    /\ instances = <<>>
    /\ pc = "none"

\* --------------------------------------------------------------- actions
\* Mutant of get_instance_buffer_slot: hands out the index without ever
\* pushing a record for it.
get_instance_buffer_slot_no_push ==
    /\ status = "running"
    /\ Len(handles) < MaxHandles
    /\ LET lowest_free_index == get_first_free_slot_idx(handles)
           nbf == [value |-> lowest_free_index, alive |-> TRUE]
       IN /\ cpu_copy' = cpu_copy
          /\ changed' = TRUE
          /\ handles' = Append(handles, nbf)
          /\ occupied_slots' = occupied_slots + 1
    /\ max_alive' = IF AliveCount(handles') > max_alive
                    THEN AliveCount(handles') ELSE max_alive
    /\ last_call' = "get_instance_buffer_slot"
    /\ gpu_writes' = 0
    /\ UNCHANGED <<gpu_buffer, gpu_buffer_id, gpu_buffer_size, status,
                   initial_capacity>>

\* InstanceBuffer::get_instance_buffer_slot(&mut self) -> Rc<usize>
get_instance_buffer_slot ==
    /\ status = "running"
    /\ Len(handles) < MaxHandles
    /\ LET lowest_free_index == get_first_free_slot_idx(handles)
           nbf == [value |-> lowest_free_index, alive |-> TRUE]
       IN /\ cpu_copy' = IF lowest_free_index >= Len(cpu_copy)
                         THEN Append(cpu_copy, DefaultRecord)
                         ELSE cpu_copy
          /\ changed' = TRUE
          /\ handles' = Append(handles, nbf)
          /\ occupied_slots' = occupied_slots + 1
    /\ max_alive' = IF AliveCount(handles') > max_alive
                    THEN AliveCount(handles') ELSE max_alive
    /\ last_call' = "get_instance_buffer_slot"
    /\ gpu_writes' = 0
    /\ UNCHANGED <<gpu_buffer, gpu_buffer_id, gpu_buffer_size, status,
                   initial_capacity>>

\* Mutant of drop: releasing the handle notifies the pool, which marks itself
\* changed.
drop_notifying(k) ==
    /\ status = "running"
    /\ k \in AlivePositions(handles)
    /\ handles' = [handles EXCEPT ![k].alive = FALSE]
    /\ changed' = TRUE
    /\ last_call' = "drop"
    /\ gpu_writes' = 0
    /\ UNCHANGED <<cpu_copy, gpu_buffer, gpu_buffer_id, gpu_buffer_size,
                   occupied_slots, status, initial_capacity, max_alive>>

\* The owner of the k-th handle created drops it (the Instance is dropped):
\* the Rc's strong count reaches 0 and the pool's Weak stops resolving.
drop(k) ==
    /\ status = "running"
    /\ k \in AlivePositions(handles)
    /\ handles' = [handles EXCEPT ![k].alive = FALSE]
    /\ last_call' = "drop"
    /\ gpu_writes' = 0
    /\ UNCHANGED <<cpu_copy, gpu_buffer, gpu_buffer_id, gpu_buffer_size,
                   occupied_slots, changed, status, initial_capacity, max_alive>>

\* Mutant of set_data: writes the record without marking the pool changed.
set_data_unmarked(index, data) ==
    /\ status = "running"
    /\ changed' = changed
    /\ IF index < Len(cpu_copy)
       THEN /\ cpu_copy' = [cpu_copy EXCEPT ![index + 1] = data]
            /\ status' = status
       ELSE /\ cpu_copy' = cpu_copy
            /\ status' = "panicked"
    /\ last_call' = "set_data"
    /\ gpu_writes' = 0
    /\ UNCHANGED <<handles, gpu_buffer, gpu_buffer_id, gpu_buffer_size,
                   occupied_slots, initial_capacity, max_alive>>

\* Mutant of set_data: the bounds check is off by one, index == len is
\* accepted and grows the mirror.
set_data_off_by_one(index, data) ==
    /\ status = "running"
    /\ changed' = TRUE
    /\ IF index < Len(cpu_copy)
       THEN /\ cpu_copy' = [cpu_copy EXCEPT ![index + 1] = data]
            /\ status' = status
       ELSE IF index = Len(cpu_copy)
       THEN /\ cpu_copy' = Append(cpu_copy, data)
            /\ status' = status
       ELSE /\ cpu_copy' = cpu_copy
            /\ status' = "panicked"
    /\ last_call' = "set_data"
    /\ gpu_writes' = 0
    /\ UNCHANGED <<handles, gpu_buffer, gpu_buffer_id, gpu_buffer_size,
                   occupied_slots, initial_capacity, max_alive>>

\* Mutant of set_data: refuses a slot that no live handle owns.
set_data_live_checked(index, data) ==
    /\ status = "running"
    /\ changed' = TRUE
    /\ IF /\ index < Len(cpu_copy)
          /\ \E k \in AlivePositions(handles) : handles[k].value = index
       THEN /\ cpu_copy' = [cpu_copy EXCEPT ![index + 1] = data]
            /\ status' = status
       ELSE /\ cpu_copy' = cpu_copy
            /\ status' = "panicked"
    /\ last_call' = "set_data"
    /\ gpu_writes' = 0
    /\ UNCHANGED <<handles, gpu_buffer, gpu_buffer_id, gpu_buffer_size,
                   occupied_slots, initial_capacity, max_alive>>

\* InstanceBuffer::set_data(&mut self, index, data)
set_data(index, data) ==
    /\ status = "running"
    /\ changed' = TRUE
    /\ IF index < Len(cpu_copy)
       THEN /\ cpu_copy' = [cpu_copy EXCEPT ![index + 1] = data]
            /\ status' = status
       ELSE /\ cpu_copy' = cpu_copy
            /\ status' = "panicked"
    /\ last_call' = "set_data"
    /\ gpu_writes' = 0
    /\ UNCHANGED <<handles, gpu_buffer, gpu_buffer_id, gpu_buffer_size,
                   occupied_slots, initial_capacity, max_alive>>

\* Mutant of flush: a flush that writes also compacts the mirror to the
\* records of the live handles.
flush_compacting ==
    /\ status = "running"
    /\ last_call' = "flush"
    /\ IF ~changed
       THEN /\ gpu_writes' = 0
            /\ UNCHANGED <<cpu_copy, gpu_buffer, gpu_buffer_id, gpu_buffer_size,
                           occupied_slots, changed, status>>
       ELSE LET resize == NeedsResize(Len(cpu_copy), gpu_buffer_size)
                new_size == IF resize THEN GrownSize(gpu_buffer_size)
                            ELSE gpu_buffer_size
                fresh == IF resize THEN create_new_buffer_with_size(new_size)
                         ELSE gpu_buffer
                occupied_indices == get_occupied_slots(handles)
            IN /\ gpu_buffer_size' = new_size
               /\ gpu_buffer_id' = IF resize THEN gpu_buffer_id + 1
                                   ELSE gpu_buffer_id
               /\ occupied_slots' = Len(occupied_indices)
               /\ IF FillPanics(occupied_indices, cpu_copy, new_size)
                  THEN /\ gpu_buffer' = fresh
                       /\ cpu_copy' = cpu_copy
                       /\ gpu_writes' = 0
                       /\ changed' = changed
                       /\ status' = "panicked"
                  ELSE /\ gpu_buffer' = Packed(occupied_indices, cpu_copy, new_size)
                       /\ cpu_copy' = [i \in 1..Len(occupied_indices) |->
                                          cpu_copy[occupied_indices[i] + 1]]
                       /\ gpu_writes' = 1
                       /\ changed' = FALSE
                       /\ status' = status
    /\ UNCHANGED <<handles, initial_capacity, max_alive>>

\* InstanceBuffer::flush(&mut self, device, queue)
flush ==
    /\ status = "running"
    /\ last_call' = "flush"
    /\ IF ~changed
       THEN /\ gpu_writes' = 0
            /\ UNCHANGED <<gpu_buffer, gpu_buffer_id, gpu_buffer_size,
                           occupied_slots, changed, status>>
       ELSE LET resize == NeedsResize(Len(cpu_copy), gpu_buffer_size)
                new_size == IF resize THEN GrownSize(gpu_buffer_size)
                            ELSE gpu_buffer_size
                fresh == IF resize THEN create_new_buffer_with_size(new_size)
                         ELSE gpu_buffer
                occupied_indices == get_occupied_slots(handles)
            IN /\ gpu_buffer_size' = new_size
               /\ gpu_buffer_id' = IF resize THEN gpu_buffer_id + 1
                                   ELSE gpu_buffer_id
               /\ occupied_slots' = Len(occupied_indices)
               /\ IF FillPanics(occupied_indices, cpu_copy, new_size)
                  THEN /\ gpu_buffer' = fresh
                       /\ gpu_writes' = 0
                       /\ changed' = changed
                       /\ status' = "panicked"
                  ELSE /\ gpu_buffer' = Packed(occupied_indices, cpu_copy, new_size)
                       /\ gpu_writes' = 1
                       /\ changed' = FALSE
                       /\ status' = status
    /\ UNCHANGED <<cpu_copy, handles, initial_capacity, max_alive>>

\* Mutant of update: indexes the mirror by the Instance's position in
\* Surface.instances instead of its handle's value.
update_by_position(k) ==
    /\ k \in LiveInstances
    /\ LET im == compute_instance_matrix(instances[k])
       IN set_data(k - 1, im)
    /\ UNCHANGED instances

\* Instance::update(&mut self, gpu_buffer) of the k-th Instance
update(k) ==
    /\ k \in LiveInstances
    /\ LET im == compute_instance_matrix(instances[k])
       IN set_data(handles[instances[k].buffer_index].value, im)
    /\ UNCHANGED instances

\* Instance::rotate(&mut self, rotation) of the k-th Instance
rotate(k, rotation) ==
    /\ status = "running"
    /\ k \in LiveInstances
    /\ instances' = [instances EXCEPT
                       ![k].rotation = QuatMul(instances[k].rotation, rotation)]
    /\ UNCHANGED <<cpu_copy, handles, gpu_buffer, gpu_buffer_id,
                   gpu_buffer_size, occupied_slots, changed, status,
                   initial_capacity, last_call, gpu_writes, max_alive>>

\* Instance::translate(&mut self, translation) of the k-th Instance
translate(k, translation) ==
    /\ status = "running"
    /\ k \in LiveInstances
    /\ instances[k].position + translation <= MaxPos
    /\ instances' = [instances EXCEPT
                       ![k].position = instances[k].position + translation]
    /\ UNCHANGED <<cpu_copy, handles, gpu_buffer, gpu_buffer_id,
                   gpu_buffer_size, occupied_slots, changed, status,
                   initial_capacity, last_call, gpu_writes, max_alive>>

\* The k-th Instance is removed from Surface.instances and dropped, and its
\* Rc<usize> with it.
drop_instance(k) ==
    /\ k \in LiveInstances
    /\ drop(instances[k].buffer_index)
    /\ instances' = [instances EXCEPT ![k] = Dropped]

Next ==
    \/ get_instance_buffer_slot /\ UNCHANGED <<instances, pc>>
    \/ \E k \in 1..MaxHandles : drop(k) /\ UNCHANGED <<instances, pc>>
    \/ \E index \in 0..(Len(cpu_copy) + 1), data \in RawInstance :
         set_data(index, data) /\ UNCHANGED <<instances, pc>>
    \/ flush /\ UNCHANGED <<instances, pc>>

Spec == Init /\ [][Next]_vars

\* The same pool with at most SmallMaxHandles handles ever created: the
\* state space on which the properties of every step are checked.
SmallMaxHandles == 2

SmallNext ==
    \/ /\ Len(handles) < SmallMaxHandles
       /\ get_instance_buffer_slot
       /\ UNCHANGED <<instances, pc>>
    \/ \E k \in 1..SmallMaxHandles : drop(k) /\ UNCHANGED <<instances, pc>>
    \/ \E index \in 0..(Len(cpu_copy) + 1), data \in RawInstance :
         set_data(index, data) /\ UNCHANGED <<instances, pc>>
    \/ flush /\ UNCHANGED <<instances, pc>>

SmallSpec == Init /\ [][SmallNext]_vars

\* ------------------------------------------------------------- Surface
\* InstanceBuffer::new(&device, 5) in Surface::new
SurfaceCapacity == 5

\* Surface::new after InstanceBuffer::new: the pool is new, no Instance yet.
SurfaceInit ==
    /\ initial_capacity = SurfaceCapacity
    /\ cpu_copy = <<>>
    /\ handles = <<>>
    /\ gpu_buffer = create_new_buffer_with_size(initial_capacity)
    /\ gpu_buffer_id = 1
    /\ gpu_buffer_size = initial_capacity
    /\ occupied_slots = 0
    /\ changed = FALSE
    /\ status = "running"
    /\ last_call = "new"
    /\ gpu_writes = 0
    /\ max_alive = 0
    /\ instances = <<>>
    /\ pc = "new_slot"

\* Surface::new: Instance::new(instbuf.get_instance_buffer_slot())
Surface_new_slot ==
    /\ pc = "new_slot"
    /\ get_instance_buffer_slot
    /\ instances' = <<Instance_new(Len(handles'))>>
    /\ pc' = "new_update"

\* Surface::new: first_instance.update(&mut instbuf)
Surface_new_update ==
    /\ pc = "new_update"
    /\ update(1)
    /\ pc' = "new_flush"

\* Mutant of Surface_new_flush: Surface::new returns without flushing.
Surface_new_without_flush ==
    /\ pc = "new_flush"
    /\ pc' = "done"
    /\ UNCHANGED <<cpu_copy, handles, gpu_buffer, gpu_buffer_id,
                   gpu_buffer_size, occupied_slots, changed, status,
                   initial_capacity, last_call, gpu_writes, max_alive,
                   instances>>

\* Surface::new: instbuf.flush(device, queue), then Self { .. } is returned
Surface_new_flush ==
    /\ pc = "new_flush"
    /\ flush
    /\ pc' = "done"
    /\ UNCHANGED instances

\* Surface::create_instance(&mut self, position, rotation, scale, color)
Surface_create_instance(position, rotation, scale, color) ==
    /\ pc = "done"
    /\ Len(instances) < MaxInstances
    /\ get_instance_buffer_slot
    /\ instances' = Append(instances,
                           Instance_init(position, rotation, scale, color,
                                         Len(handles')))
    /\ UNCHANGED pc

\* Quaternion { v: Vector3::zero(), s: 1.0 }: no rotation.
OneQuaternion == [s |-> 1, z |-> 0]

\* A Surface and what its owner does with the public instances and
\* instance_buffer fields after Surface::new has returned. Instances are
\* created unrotated, at scale 2 and with color 0; all are translated, the
\* first one is also rotated, by half turns about z.
SurfaceNext ==
    \/ Surface_new_slot
    \/ Surface_new_update
    \/ Surface_new_flush
    \/ \E position \in 0..MaxPos :
         Surface_create_instance(position, OneQuaternion, 2, 0)
    \/ \E k \in 1..MaxInstances : pc = "done" /\ update(k) /\ UNCHANGED pc
    \/ pc = "done" /\ rotate(1, UnitZQuaternion) /\ UNCHANGED pc
    \/ \E k \in 1..MaxInstances :
         pc = "done" /\ translate(k, 1) /\ UNCHANGED pc
    \/ \E k \in 1..MaxInstances :
         pc = "done" /\ drop_instance(k) /\ UNCHANGED pc
    \/ pc = "done" /\ flush /\ UNCHANGED <<instances, pc>>

SurfaceSpec == SurfaceInit /\ [][SurfaceNext]_vars

\* ------------------------------------------------- vocabulary of the claims
\* Slot indices that some live handle carries.
LiveSlots(hs) == {hs[k].value : k \in AlivePositions(hs)}

\* Lowest index below the high-water mark with no live owner, else the mark.
LowestUnownedSlot(hs) ==
    LET free == {i \in 0..(Len(hs) - 1) : i \notin LiveSlots(hs)}
    IN IF free # {} THEN CHOOSE i \in free : \A j \in free : i <= j
       ELSE Len(hs)

\* The live slot indices in ascending order.
RECURSIVE AscendingSeq(_)
AscendingSeq(S) ==
    IF S = {} THEN <<>>
    ELSE LET m == CHOOSE i \in S : \A j \in S : i <= j
         IN <<m>> \o AscendingSeq(S \ {m})

\* The last call was a flush that found the pool dirty and issued its write.
FlushWrote == last_call = "flush" /\ gpu_writes = 1

\* The last call was a flush that returned (with or without doing work).
FlushReturned == last_call = "flush" /\ status = "running"

\* The first n records of the GPU buffer are the mirror records of the live
\* handles, one position per live handle, in some order.
ImageHoldsLiveHandles ==
    LET alive == AlivePositions(handles)
        n == Cardinality(alive)
    IN /\ n <= Len(gpu_buffer)
       /\ \E f \in [1..n -> alive] :
            /\ \A i, j \in 1..n : i # j => f[i] # f[j]
            /\ \A i \in 1..n : gpu_buffer[i] = cpu_copy[handles[f[i]].value + 1]
       /\ \A i \in (n + 1)..Len(gpu_buffer) : gpu_buffer[i] = DefaultRecord

\* ------------------------------------------------------------------ claims
\* C1: get_instance_buffer_slot returns the lowest slot index that no live
\* handle occupies: the smallest index below the high-water mark without a
\* live owner if there is one, otherwise the previous len(handles).
C1_ReturnsLowestUnownedSlot ==
    [][get_instance_buffer_slot =>
         handles'[Len(handles')].value = LowestUnownedSlot(handles)]_vars

\* C2: no two simultaneously live Slot Handles carry the same slot index.
C2_OneHandlePerSlot ==
    \A j, k \in AlivePositions(handles) :
        j # k => handles[j].value # handles[k].value

\* C3: len(mirror) == len(liveness) in every reachable state.
C3_MirrorLenEqLivenessLen == Len(cpu_copy) = Len(handles)

\* C4: liveness is indexed by slot: liveness[i] resolves iff a live handle
\* with value i exists, a resolving liveness[i] has value i, and right after
\* an allocation that returned i, liveness[i] is the new handle's weak ref.
C4_LivenessIndexedBySlot ==
    /\ \A i \in 0..(Len(handles) - 1) :
         /\ upgrade(handles[i + 1]) <=> i \in LiveSlots(handles)
         /\ upgrade(handles[i + 1]) => handles[i + 1].value = i
    /\ last_call = "get_instance_buffer_slot" =>
         handles[Len(handles)].value = Len(handles) - 1

\* C5: the number of tracked slots (len(liveness) and len(mirror)) never
\* exceeds the largest number of handles that were alive at one time.
C5_NoSlotLeak ==
    /\ Len(handles) <= max_alive
    /\ Len(cpu_copy) <= max_alive

\* C6: flush writes iff the pool is dirty: a flush on a clean pool issues no
\* allocation and no write and changes no field; a flush on a dirty pool
\* issues exactly one write.
C6_FlushWritesIffDirty ==
    [][flush =>
         IF changed
         THEN gpu_writes' = 1
         ELSE /\ gpu_writes' = 0
              /\ UNCHANGED <<cpu_copy, gpu_buffer, gpu_buffer_id,
                             gpu_buffer_size, occupied_slots, changed>>]_vars

\* C7: after any flush returns, live_count is the number of handles alive at
\* that moment and the packed GPU image holds exactly their records.
C7_FlushObservesEverything ==
    FlushReturned =>
        /\ occupied_slots = AliveCount(handles)
        /\ ImageHoldsLiveHandles

\* C8: after a flush that wrote, the uploaded array has length capacity, its
\* positions 0..live_count hold the mirror record of each live slot (one
\* position per live slot, none for a dead slot), the rest is the default
\* record, and live_count is the number of live slots.
C8_CompactionCorrect ==
    FlushWrote =>
        LET slots == LiveSlots(handles)
            n == Cardinality(slots)
        IN /\ Len(gpu_buffer) = gpu_buffer_size
           /\ occupied_slots = n
           /\ n <= Len(gpu_buffer)
           /\ \E f \in [1..n -> slots] :
                /\ \A i, j \in 1..n : i # j => f[i] # f[j]
                /\ \A i \in 1..n : gpu_buffer[i] = cpu_copy[f[i] + 1]
           /\ \A i \in (n + 1)..Len(gpu_buffer) : gpu_buffer[i] = DefaultRecord

\* C9: in the array uploaded by flush the live slots' records appear in
\* ascending order of slot index.
C9_CompactionAscending ==
    FlushWrote =>
        LET asc == AscendingSeq(LiveSlots(handles))
        IN \A i \in 1..Len(asc) :
             /\ i <= Len(gpu_buffer)
             /\ gpu_buffer[i] = cpu_copy[asc[i] + 1]

\* C10: before every GPU write issued by flush, capacity >= len(mirror).
C10_CapacityCoversMirrorAtWrite ==
    FlushWrote => gpu_buffer_size >= Len(cpu_copy)

\* C11: flush grows capacity (and reallocates the GPU buffer) only if
\* len(mirror) > capacity beforehand; with len(mirror) <= capacity a flush
\* leaves capacity and the GPU buffer object unchanged.
C11_GrowsOnlyWhenMirrorExceedsCapacity ==
    [][flush /\ Len(cpu_copy) <= gpu_buffer_size =>
         UNCHANGED <<gpu_buffer_size, gpu_buffer_id>>]_vars

\* C12: with n live slots allocated and none dropped, c < n <= 2c for the
\* initial capacity c, the next flush leaves capacity == 2c and
\* live_count == n.
C12_HighWaterMarkGrowth ==
    [][/\ flush
       /\ changed
       /\ AliveCount(handles) = Len(handles)
       /\ initial_capacity < Len(handles)
       /\ Len(handles) <= 2 * initial_capacity
       => /\ gpu_buffer_size' = 2 * initial_capacity
          /\ occupied_slots' = Len(handles)]_vars

\* 2^k for a natural k.
RECURSIVE Pow2(_)
Pow2(k) == IF k = 0 THEN 1 ELSE 2 * Pow2(k - 1)

\* size is initial_capacity doubled some number of times.
IsDoublingOfInitial(size) ==
    \E k \in 0..size : size = initial_capacity * Pow2(k)

\* C13: capacity grows only via doubling: it always equals
\* initial_capacity * 2^k for some k >= 0, it never decreases, and only
\* flush changes it.
C13_CapacityGrowsOnlyByDoubling ==
    /\ IsDoublingOfInitial(gpu_buffer_size)
    /\ [][/\ IsDoublingOfInitial(gpu_buffer_size')
          /\ gpu_buffer_size' >= gpu_buffer_size
          /\ gpu_buffer_size' # gpu_buffer_size => flush]_vars

\* A second doubling has just happened.
C13_Witness ==
    last_call = "flush" /\ gpu_buffer_size = 4 * initial_capacity

\* C14: dirty is set by every allocation and every successful set_record,
\* stays true until the next flush and is cleared only by a flush that
\* completed (a step that clears it is such a flush), and is false after a
\* flush that did work. (Every method records its name in last_call.)
C14_DirtyTracking ==
    [][/\ last_call' = "get_instance_buffer_slot" => changed'
       /\ (last_call' = "set_data" /\ status' = "running") => changed'
       /\ (changed /\ ~changed') => (flush /\ status' = "running")
       /\ (changed /\ last_call' = "flush" /\ status' = "running")
              => ~changed']_vars

\* A flush has just cleared the flag after a record was set.
C14_Witness ==
    /\ FlushWrote
    /\ ~changed
    /\ \E i \in 1..Len(cpu_copy) : cpu_copy[i] # DefaultRecord

\* The GPU buffer is a packed image drawn from the mirror: capacity records,
\* the first live_count of them mirror records, the rest default records.
ImageDrawnFromMirror ==
    /\ Len(gpu_buffer) = gpu_buffer_size
    /\ occupied_slots <= Len(gpu_buffer)
    /\ \A i \in 1..occupied_slots :
         \E j \in 1..Len(cpu_copy) : gpu_buffer[i] = cpu_copy[j]
    /\ \A i \in (occupied_slots + 1)..Len(gpu_buffer) :
         gpu_buffer[i] = DefaultRecord

\* C15: whenever dirty == false the GPU buffer holds the packed image of the
\* last flush and that image still matches the mirror: a step that ends with
\* dirty == false is either a flush that uploaded the packed image of the
\* live handles' records, or it started with dirty == false and changed
\* neither a mirror record nor the GPU buffer.
C15_CleanMeansImageOfLastFlush ==
    /\ ~changed => ImageDrawnFromMirror
    /\ [][~changed' =>
            /\ ImageDrawnFromMirror'
            /\ \/ flush /\ changed /\ FlushWrote' /\ ImageHoldsLiveHandles'
               \/ ~changed /\ cpu_copy' = cpu_copy /\ gpu_buffer' = gpu_buffer]_vars

\* The pool is clean after a drop and the buffer still holds a set record.
C15_Witness ==
    /\ ~changed
    /\ last_call = "drop"
    /\ \E i \in 1..occupied_slots : gpu_buffer[i] # DefaultRecord

\* C16: set_data is bounds-checked: for every index >= len(mirror), and in
\* particular index == len(mirror), the call fails without writing; for
\* every index < len(mirror) it succeeds.
C16_SetDataBoundsChecked ==
    [][last_call' = "set_data" =>
       \A index \in 0..(MaxHandles + 1), data \in RawInstance :
         set_data(index, data) =>
             IF index >= Len(cpu_copy)
             THEN status' = "panicked" /\ cpu_copy' = cpu_copy
             ELSE status' = "running" /\ cpu_copy'[index + 1] = data]_vars

\* set_data has just failed on a pool that has slots.
C16_Witness ==
    last_call = "set_data" /\ status = "panicked" /\ Len(cpu_copy) >= 1

\* C17: a new pool has empty mirror and liveness sequences, capacity ==
\* initial_capacity, live_count == 0 and dirty == false, and a flush on a
\* pool with no allocation and no mutation is a no-op that issues no write.
\* (Without a handle the only calls that return are new and flush.)
C17_NewPoolAndFirstFlush ==
    (handles = <<>> /\ last_call \in {"new", "flush"}) =>
        /\ cpu_copy = <<>>
        /\ gpu_buffer_size = initial_capacity
        /\ gpu_buffer = Zeroed(initial_capacity)
        /\ gpu_buffer_id = 1
        /\ occupied_slots = 0
        /\ ~changed
        /\ gpu_writes = 0
        /\ status = "running"

\* The first flush of a pool without allocations has returned.
C17_Witness == handles = <<>> /\ last_call = "flush"

\* C18: live_count is refreshed at flush time only: allocations, set_record
\* and drops leave occupied_slots unchanged.
C18_LiveCountChangesOnlyInFlush ==
    [][occupied_slots' # occupied_slots => flush]_vars

\* C19: the per-instance vertex layout matches the Raw Instance Record: five
\* Float32x4 attributes at byte offsets 0, 16, 32, 48, 64 at consecutive
\* shader locations, and an array stride equal to the byte size of one record
\* (80), so record k of an uploaded buffer is fetched where it was written.
C19_LayoutMatchesRecord ==
    FlushWrote =>
        /\ Len(desc_attributes) = 5
        /\ \A a \in 1..Len(desc_attributes) :
             /\ desc_attributes[a].offset = 16 * (a - 1)
             /\ desc_attributes[a].shader_location =
                    desc_attributes[1].shader_location + (a - 1)
        /\ SizeOfRawInstance = 80
        /\ desc_array_stride = SizeOfRawInstance
        /\ \A k \in 0..(gpu_buffer_size - 1) : FetchOffset(k) = WriteOffset(k)

\* C20: a set_data with index < len(mirror) succeeds whether or not the slot
\* has a live owner, overwrites exactly mirror[index] and sets dirty; every
\* other mirror entry, the liveness sequence, capacity, live_count and the
\* GPU buffer are unchanged.
C20_SetDataFrame ==
    [][last_call' = "set_data" =>
       \A index \in 0..(Len(cpu_copy) - 1), data \in RawInstance :
         set_data(index, data) =>
             /\ status' = "running"
             /\ Len(cpu_copy') = Len(cpu_copy)
             /\ cpu_copy'[index + 1] = data
             /\ \A j \in 1..Len(cpu_copy) :
                  j # index + 1 => cpu_copy'[j] = cpu_copy[j]
             /\ changed'
             /\ UNCHANGED <<handles, gpu_buffer_size, occupied_slots,
                            gpu_buffer, gpu_buffer_id>>]_vars

\* set_data has just succeeded although no handle is alive.
C20_Witness ==
    /\ last_call = "set_data"
    /\ status = "running"
    /\ AliveCount(handles) = 0
    /\ \E i \in 1..Len(cpu_copy) : cpu_copy[i] # DefaultRecord

\* Some weak reference of the liveness sequence no longer resolves (a hole).
HasHole(hs) == \E k \in 1..Len(hs) : ~upgrade(hs[k])

\* C21: get_instance_buffer_slot changes the mirror only by appending: with
\* no hole it pushes exactly one default record; when it reuses a hole i,
\* i < len(mirror) and the mirror, mirror[i] included, is unchanged.
C21_AllocChangesMirrorOnlyByAppending ==
    [][last_call' = "get_instance_buffer_slot" =>
         IF HasHole(handles)
         THEN /\ cpu_copy' = cpu_copy
              /\ handles'[Len(handles')].value < Len(cpu_copy)
         ELSE /\ cpu_copy' = Append(cpu_copy, DefaultRecord)
              /\ handles'[Len(handles')].value = Len(cpu_copy)]_vars

\* A hole has just been reused and still holds its previous occupant's record.
C21_Witness ==
    /\ last_call = "get_instance_buffer_slot"
    /\ Len(cpu_copy) < Len(handles)
    /\ cpu_copy[handles[Len(handles)].value + 1] # DefaultRecord

\* C22: dropping a handle changes no pool field: mirror, capacity, dirty,
\* live_count and the GPU buffer are as before the drop; only the scans (the
\* free-slot search and the collection of live indices) see the freed slot.
C22_DropChangesNoPoolField ==
    [][last_call' = "drop" =>
         /\ UNCHANGED <<cpu_copy, gpu_buffer_size, changed, occupied_slots,
                        gpu_buffer, gpu_buffer_id>>
         /\ Len(handles') = Len(handles)
         /\ Len(get_occupied_slots(handles')) =
                Len(get_occupied_slots(handles)) - 1
         /\ HasHole(handles')]_vars

\* A handle was dropped on a clean pool: live_count still counts it.
C22_Witness ==
    /\ last_call = "drop"
    /\ ~changed
    /\ occupied_slots > AliveCount(handles)

\* C23: flush is all-or-nothing: a flush that fails leaves capacity,
\* live_count, dirty and the GPU buffer as before the call, and no flush
\* updates capacity or live_count without having issued its upload.
C23_FlushAllOrNothing ==
    [][last_call' = "flush" =>
         /\ status' = "panicked" =>
              UNCHANGED <<gpu_buffer_size, occupied_slots, changed,
                          gpu_buffer, gpu_buffer_id>>
         /\ (gpu_buffer_size' # gpu_buffer_size
                \/ occupied_slots' # occupied_slots) => gpu_writes' = 1]_vars

\* The Raw Instance Record of a placement: scale applied first, then the
\* rotation, then the translation, followed by the color. Column 0 is the
\* image of the x axis, column 3 the translation.
PlacementRecord(inst) ==
    AsRawInstance(<<(1 - 2 * inst.rotation.z * inst.rotation.z) * inst.scale, 0,
                    inst.position, 1, inst.color>>)

\* C24: Instance::update writes the instance's current raw record into the
\* mirror at its own handle's index and nowhere else and sets dirty;
\* changing an instance's fields without update changes nothing in the pool.
C24_UpdateWritesOwnSlot ==
    [][/\ \A k \in 1..MaxInstances :
            update(k) =>
                /\ status' = "running"
                /\ cpu_copy' =
                      [cpu_copy EXCEPT
                         ![handles[instances[k].buffer_index].value + 1] =
                             PlacementRecord(instances[k])]
                /\ changed'
                /\ UNCHANGED <<handles, gpu_buffer, gpu_buffer_id,
                               gpu_buffer_size, occupied_slots, instances>>
       /\ (\E k \in LiveInstances :
              instances'[k] # instances[k] /\ instances'[k] # Dropped)
            => UNCHANGED <<cpu_copy, handles, gpu_buffer, gpu_buffer_id,
                           gpu_buffer_size, occupied_slots, changed, status,
                           gpu_writes>>]_vars

\* An instance that reuses a slot was moved and then synced: its record is
\* at its handle's index, which is not its position in instances.
C24_Witness ==
    /\ last_call = "set_data"
    /\ status = "running"
    /\ \E k \in LiveInstances :
         /\ handles[instances[k].buffer_index].value # k - 1
         /\ instances[k].position = 1
         /\ cpu_copy[handles[instances[k].buffer_index].value + 1] =
                PlacementRecord(instances[k])

\* C25: the draw range stays inside the GPU buffer: in every reachable
\* state, also between an allocation and the next flush,
\* live_count <= capacity.
C25_DrawRangeInsideBuffer == occupied_slots <= gpu_buffer_size

\* C26: flush never accesses an array out of range: a dirty flush on any
\* reachable pool completes, every collected live index is < len(mirror)
\* and the number of collected entries is <= capacity after growth.
C26_FlushNeverOutOfRange ==
    [][last_call' = "flush" =>
         /\ status' = "running"
         /\ \A i \in 1..Len(get_occupied_slots(handles)) :
              get_occupied_slots(handles)[i] < Len(cpu_copy)
         /\ Len(get_occupied_slots(handles)) <= gpu_buffer_size']_vars

\* C27: a held handle is always a valid index: every live handle's value is
\* < len(mirror), so set_data with the handle's own index does not fail.
C27_HeldHandleIsValidIndex ==
    \A k \in AlivePositions(handles) : handles[k].value < Len(cpu_copy)

\* A live handle carries the last index of the mirror after a hole was reused.
C27_Witness ==
    /\ Len(cpu_copy) < Len(handles)
    /\ \E k \in AlivePositions(handles) :
         handles[k].value = Len(cpu_copy) - 1

\* C28: flush never compacts the CPU side: mirror and liveness (lengths and
\* every entry) are the same before and after any flush.
C28_FlushLeavesCpuSide ==
    [][last_call' = "flush" => cpu_copy' = cpu_copy /\ handles' = handles]_vars

\* A flush has just packed fewer records than the mirror holds.
C28_Witness ==
    /\ FlushWrote
    /\ occupied_slots < Len(cpu_copy)
    /\ AliveCount(handles) >= 1

\* C29: when Surface::new returns, the pool holds exactly one instance, at
\* slot 0, synced and flushed: len(mirror) == 1, live_count == 1,
\* capacity == 5, dirty == false. A create_instance on the pool holding that
\* one instance allocates slot 1 and sets dirty without syncing: the mirror
\* record of the new instance is the default record, and stays so until
\* update is called for it.
C29_SurfaceNewThenCreateInstance ==
    [][/\ (pc = "new_flush" /\ pc' = "done") =>
            /\ status' = "running"
            /\ Len(instances') = 1
            /\ Len(handles') = 1
            /\ upgrade(handles'[1])
            /\ handles'[1].value = 0
            /\ Len(cpu_copy') = 1
            /\ cpu_copy'[1] = PlacementRecord(instances'[1])
            /\ gpu_writes' = 1
            /\ gpu_buffer'[1] = cpu_copy'[1]
            /\ occupied_slots' = 1
            /\ gpu_buffer_size' = 5
            /\ ~changed'
       /\ (/\ pc = "done"
           /\ Len(instances) = 1
           /\ instances[1] # Dropped
           /\ Len(instances') = 2) =>
            /\ handles'[2].value = 1
            /\ changed'
            /\ cpu_copy' = Append(cpu_copy, DefaultRecord)
            /\ cpu_copy'[2] # PlacementRecord(instances'[2])
       /\ (/\ Len(handles) = 2
           /\ handles[2].value = 1
           /\ cpu_copy[2] = DefaultRecord
           /\ cpu_copy'[2] # DefaultRecord) =>
            \E k \in LiveInstances :
                /\ handles[instances[k].buffer_index].value = 1
                /\ update(k)]_vars

\* create_instance has just allocated slot 1 next to the first instance.
C29_Witness ==
    /\ pc = "done"
    /\ last_call = "get_instance_buffer_slot"
    /\ Len(instances) = 2
    /\ instances[1] # Dropped
    /\ handles[2].value = 1
    /\ cpu_copy[2] = DefaultRecord
    /\ changed

====
